---- MODULE Spec2Model ----
(***************************************************************************)
(* A model of MuseClient (src/src/muse.ts): the connect / command /        *)
(* disconnect lifecycle against a Web Bluetooth GATT server, and the       *)
(* reconstruction of reading timestamps from the 16-bit group index.       *)
(*                                                                         *)
(* Time is counted in eighths of a millisecond, so that READING_DELTA      *)
(* (46.875 ms) and every timestamp the code computes is an integer; the    *)
(* doubles of the code are exact on these values (multiples of 1/8 far     *)
(* below 2^53).                                                            *)
(***************************************************************************)
EXTENDS Integers, Sequences, FiniteSets, TLC

\* ---------------------------------------------------------------- bounds
MaxClock == 1          \* Date.getTime() ranges over 0..MaxClock ms
MaxWraps == 2          \* lastIndex is followed through this many wraps
MaxHandlers == 2       \* 'gattserverdisconnected' listeners registered at once
MaxFalse == 3          \* false notifications counted since the last true
MaxDiscCalls == 2      \* disconnect() calls counted since the last true
MaxWaits == 2          \* deviceInfo() calls followed
MaxResp == 3           \* control responses delivered

\* ------------------------------------------------------ program constants
EEG_FREQUENCY == 256
SAMPLES_PER_READING == 12
READING_DELTA == (1000 * 8 * SAMPLES_PER_READING) \div EEG_FREQUENCY
WrapTolerance == 4096      \* 0x1000
IndexRange == 65536        \* 0x10000
EEG_CHARACTERISTICS == 5
FixedBindings == 4         \* Control, Telemetry, Gyroscope, Accelerometer

Null == << >>
Some(v) == << v >>
Val(x) == x[1]

\* Group indices delivered by the electrodes (values of data.getUint16(0)).
Indices == {0, 5, 6, 4101, 4102, 65520, 65535}
\* The electrode that delivers them while one stream is explored.
StreamElectrodes == {0}
\* The indices and the electrodes delivered while the merged stream is explored.
MuxIndices == {5, 6, 4102}
MuxElectrodes == {0, 1}
\* The index and the electrode delivered while the lifecycle is explored.
SessionIndices == {5}
SessionElectrodes == {0}

VARIABLES
    gatt,              \* this.gatt: "null" or "server"
    deviceName,        \* this.deviceName
    controlChar,       \* this.controlChar is bound (TRUE) or undefined
    controlResponses,  \* this.controlResponses is assigned (TRUE) or undefined
    enableAux,         \* this.enableAux
    connectionStatus,  \* current value of the BehaviorSubject
    lastIndex,         \* this.lastIndex: Null or Some(n)
    lastTimestamp,     \* this.lastTimestamp: Null or Some(t), t in ms/8
    connPc,            \* position of the running connect(): "idle", "discover", "service", "bind"
    bindIdx,           \* number of binding awaits of connect() already resolved
    startPc,           \* 0: no start() running; n: start() awaits the write of command n
    writes,            \* commands written to the control characteristic by the last start()
    inflight,          \* writes issued whose promise has not settled
    connected,         \* device.gatt.connected: the link is up
    evPending,         \* a 'gattserverdisconnected' event is queued, not yet dispatched
    handlers,          \* listeners of 'gattserverdisconnected' registered by connect()
    eegChannels,       \* electrode streams of this.eegReadings that still deliver (0: none)
    now,               \* the wall clock, in ms
    calls,             \* the last two getTimestamp calls since the state was seeded
    mono,              \* every index since the seeding call exceeded the one before
    solo,              \* per electrode: the sequencing state it would have alone
    falseSince,        \* false notifications since the last true
    discCalls,         \* disconnect() calls since the last true
    connResult,        \* how the last connect() ended: "none", "ok", "failed"
    startResult,       \* how the last start() ended: "none", "ok", "failed"
    charLive,          \* this.controlChar belongs to the link that is up
    sendPc,            \* "idle", or the command whose write sendCommand() awaits
    sendResult,        \* how the last sendCommand() ended: "none", "ok", "failed"
    waits,             \* per deviceInfo() call: its position, listener and result
    resps,             \* control responses delivered so far: TRUE when one carries fw
    live               \* a connect() completed, no disconnect() or disconnect event since

tsVars == << lastIndex, lastTimestamp, calls, mono, solo >>
sessVars == << gatt, deviceName, controlChar, controlResponses, connectionStatus, handlers >>
connVars == << connPc, bindIdx, connResult >>
cmdVars == << startPc, writes, inflight, startResult, sendPc, sendResult >>
envVars == << connected, evPending, eegChannels, charLive >>
obsVars == << falseSince, discCalls, live >>
corrVars == << waits, resps >>
vars == << tsVars, sessVars, connVars, cmdVars, envVars, obsVars, corrVars, enableAux, now >>

\* ------------------------------------------------------------ getTimestamp

\* new Date().getTime(), in eighths of a millisecond
DateGetTime == now * 8

\* The unwrapping done by an if in place of the while: one wrap at most.
UnwrapOnce(li, eventIndex) ==
    IF li - eventIndex > WrapTolerance
    THEN eventIndex + IndexRange
    ELSE eventIndex

\* while ((this.lastIndex - eventIndex) > 0x1000) eventIndex += 0x10000
RECURSIVE Unwrap(_, _)
Unwrap(li, eventIndex) ==
    IF li - eventIndex > WrapTolerance
    THEN Unwrap(li, eventIndex + IndexRange)
    ELSE eventIndex

\* The sequencing state after the seeding branch of getTimestamp.
Seed(li, lt, eventIndex, t) ==
    IF li = Null \/ lt = Null
    THEN [lastIndex |-> eventIndex, lastTimestamp |-> t - READING_DELTA]
    ELSE [lastIndex |-> Val(li), lastTimestamp |-> Val(lt)]

\* getTimestamp advancing by one READING_DELTA whatever the index gap.
getTimestampFlatDelta(li, lt, eventIndex, t) ==
    LET s == Seed(li, lt, eventIndex, t)
        e == Unwrap(s.lastIndex, eventIndex)
    IN  IF e = s.lastIndex
        THEN [ret |-> s.lastTimestamp,
              lastIndex |-> s.lastIndex, lastTimestamp |-> s.lastTimestamp]
        ELSE IF e > s.lastIndex
        THEN [ret |-> s.lastTimestamp + READING_DELTA,
              lastIndex |-> e,
              lastTimestamp |-> s.lastTimestamp + READING_DELTA]
        ELSE [ret |-> s.lastTimestamp - READING_DELTA * (s.lastIndex - e),
              lastIndex |-> s.lastIndex, lastTimestamp |-> s.lastTimestamp]

\* getTimestamp storing the late group's index and timestamp.
getTimestampLateStored(li, lt, eventIndex, t) ==
    LET s == Seed(li, lt, eventIndex, t)
        e == Unwrap(s.lastIndex, eventIndex)
    IN  IF e = s.lastIndex
        THEN [ret |-> s.lastTimestamp,
              lastIndex |-> s.lastIndex, lastTimestamp |-> s.lastTimestamp]
        ELSE IF e > s.lastIndex
        THEN [ret |-> s.lastTimestamp + READING_DELTA * (e - s.lastIndex),
              lastIndex |-> e,
              lastTimestamp |-> s.lastTimestamp + READING_DELTA * (e - s.lastIndex)]
        ELSE [ret |-> s.lastTimestamp - READING_DELTA * (s.lastIndex - e),
              lastIndex |-> e,
              lastTimestamp |-> s.lastTimestamp - READING_DELTA * (s.lastIndex - e)]

\* getTimestamp advancing lastTimestamp without storing the new lastIndex.
getTimestampIndexKept(li, lt, eventIndex, t) ==
    LET s == Seed(li, lt, eventIndex, t)
        e == Unwrap(s.lastIndex, eventIndex)
    IN  IF e = s.lastIndex
        THEN [ret |-> s.lastTimestamp,
              lastIndex |-> s.lastIndex, lastTimestamp |-> s.lastTimestamp]
        ELSE IF e > s.lastIndex
        THEN [ret |-> s.lastTimestamp + READING_DELTA * (e - s.lastIndex),
              lastIndex |-> s.lastIndex,
              lastTimestamp |-> s.lastTimestamp + READING_DELTA * (e - s.lastIndex)]
        ELSE [ret |-> s.lastTimestamp - READING_DELTA * (s.lastIndex - e),
              lastIndex |-> s.lastIndex, lastTimestamp |-> s.lastTimestamp]

\* getTimestamp without its branches: the state always follows the index.
getTimestampUnconditional(li, lt, eventIndex, t) ==
    LET s == Seed(li, lt, eventIndex, t)
        e == Unwrap(s.lastIndex, eventIndex)
        stamp == s.lastTimestamp + READING_DELTA * (e - s.lastIndex)
    IN  [ret |-> stamp, lastIndex |-> e, lastTimestamp |-> stamp]

\* getTimestamp(eventIndex) run on the state (li, lt) at time t: the value
\* returned and the state left behind.
getTimestamp(li, lt, eventIndex, t) ==
    LET s == Seed(li, lt, eventIndex, t)
        e == Unwrap(s.lastIndex, eventIndex)
    IN  IF e = s.lastIndex
        THEN [ret |-> s.lastTimestamp,
              lastIndex |-> s.lastIndex, lastTimestamp |-> s.lastTimestamp]
        ELSE IF e > s.lastIndex
        THEN [ret |-> s.lastTimestamp + READING_DELTA * (e - s.lastIndex),
              lastIndex |-> e,
              lastTimestamp |-> s.lastTimestamp + READING_DELTA * (e - s.lastIndex)]
        ELSE [ret |-> s.lastTimestamp - READING_DELTA * (s.lastIndex - e),
              lastIndex |-> s.lastIndex, lastTimestamp |-> s.lastTimestamp]

\* --------------------------------------------------------------- helpers

Min(a, b) == IF a < b THEN a ELSE b

\* const channelCount = this.enableAux ? EEG_CHARACTERISTICS.length : 4
channelCount == IF enableAux THEN EEG_CHARACTERISTICS ELSE 4

\* The awaits of connect() after getPrimaryService: a getCharacteristic and
\* an observableCharacteristic for each of Control, Telemetry, Gyroscope,
\* Accelerometer and the channelCount electrodes.
NumBind == 2 * (FixedBindings + channelCount)

\* this.gatt.device.name || null, for the one device of the model
DeviceName == "Muse"

\* start() selecting the preset after it starts the stream.
StartCommandsSwapped == << "h", "s", "p20", "d" >>

\* The commands of start(), in the order of its statements.
StartCommands == << "h", "p20", "s", "d" >>

Electrodes == 0 .. (EEG_CHARACTERISTICS - 1)

Unset == [lastIndex |-> Null, lastTimestamp |-> Null]

\* connectionStatus.next(false), n times: the tally kept of them
CountFalse(n) == Min(falseSince + n, MaxFalse)

\* The commands sendCommand() is called with: those of pause() and resume().
Commands == {"h", "d"}

\* No start() or sendCommand() is running: the caller serializes them with
\* connect() and disconnect().
NoCommand == startPc = 0 /\ sendPc = "idle"

WaitIds == 1 .. MaxWaits

\* A deviceInfo() call not made yet. pc: "idle", "write" (awaits the write
\* of 'v1'), "wait" (awaits resultListener), "done". sub: the number of
\* responses delivered before resultListener subscribed. heard: the
\* response take(1) let through. closed: the stream completed first.
\* res: "none", "value", "undefined", "failed".
NoWait == [pc |-> "idle", sub |-> Null, heard |-> Null, closed |-> FALSE,
           res |-> "none"]

\* resultListener is subscribed at a time when it learns of responses only
\* once the write of 'v1' has completed.
HearsAfterWrite(w) == waits[w].pc = "wait"

\* resultListener of call w is subscribed and has let nothing through:
\* from the call on, whether or not the write of 'v1' has completed.
Hears(w) == waits[w].pc \in {"write", "wait"}

\* What a new subscriber of controlResponses receives of the responses
\* delivered before: nothing, rawControlData is share()d without replay.
OnSubscribe(log) == Null

\* toPromise() of call w when take(1) lets response number k through.
Resolved(w, k) ==
    [waits[w] EXCEPT !.heard = Some(k),
                     !.pc = IF @ = "wait" THEN "done" ELSE @,
                     !.res = IF waits[w].pc = "wait" THEN "value" ELSE @]

\* toPromise() of call w when the stream completes with nothing let
\* through: the promise resolves, with undefined.
Completed(w) ==
    [waits[w] EXCEPT !.closed = TRUE,
                     !.pc = IF @ = "wait" THEN "done" ELSE @,
                     !.res = IF waits[w].pc = "wait" THEN "undefined" ELSE @]

\* The control stream terminates when the session is disconnected: every
\* listener still waiting sees it complete.
StreamsClose ==
    waits' = [w \in WaitIds |->
                IF Hears(w) /\ waits[w].heard = Null /\ ~waits[w].closed
                THEN Completed(w) ELSE waits[w]]

\* The handler's connectionStatus.next(false): the value of the subject
\* once the listeners have run.
StatusAfterEventKept == connectionStatus

StatusAfterEvent == IF handlers > 0 THEN FALSE ELSE connectionStatus

\* ------------------------------------------------------------------ Init

Init ==
    /\ gatt = "null"
    /\ deviceName = ""
    /\ controlChar = FALSE
    /\ enableAux = FALSE
    /\ connectionStatus = FALSE
    /\ lastIndex = Null
    /\ lastTimestamp = Null
    /\ connPc = "idle"
    /\ bindIdx = 0
    /\ startPc = 0
    /\ writes = << >>
    /\ inflight = 0
    /\ startResult = "none"
    /\ connected = FALSE
    /\ evPending = FALSE
    /\ handlers = 0
    /\ eegChannels = 0
    /\ now = 0
    /\ calls = << >>
    /\ mono = TRUE
    /\ solo = [c \in Electrodes |-> Unset]
    /\ falseSince = 0
    /\ discCalls = 0
    /\ connResult = "none"
    /\ controlResponses = FALSE
    /\ charLive = FALSE
    /\ sendPc = "idle"
    /\ sendResult = "none"
    /\ waits = [w \in WaitIds |-> NoWait]
    /\ resps = << >>
    /\ live = FALSE

\* ------------------------------------------------------------ environment

\* The clock advances.
Tick ==
    /\ now < MaxClock
    /\ now' = now + 1
    /\ UNCHANGED << corrVars, tsVars, sessVars, connVars, cmdVars, envVars, obsVars, enableAux >>

\* The caller sets the public field enableAux between sessions.
SetEnableAux(b) ==
    /\ connPc = "idle"
    /\ enableAux # b
    /\ enableAux' = b
    /\ UNCHANGED << corrVars, tsVars, sessVars, connVars, cmdVars, envVars, obsVars, now >>

\* The caller connects the GATT server itself, to hand it to connect(gatt).
GattConnect ==
    /\ connPc = "idle"
    /\ ~connected
    /\ ~evPending
    /\ connected' = TRUE
    /\ UNCHANGED << evPending, eegChannels, charLive >>
    /\ UNCHANGED << corrVars, tsVars, sessVars, connVars, cmdVars, obsVars, enableAux, now >>

\* The link drops: the transport queues 'gattserverdisconnected' and the
\* characteristics of the session deliver nothing more.
TransportDrop ==
    /\ connected
    /\ connected' = FALSE
    /\ evPending' = TRUE
    /\ eegChannels' = 0
    /\ charLive' = FALSE
    /\ UNCHANGED << corrVars, tsVars, sessVars, connVars, cmdVars, obsVars, enableAux, now >>

\* What the listeners registered by connect() do when the event is
\* dispatched: each runs once (first()), sets this.gatt = null and calls
\* connectionStatus.next(false).
HandlersRun ==
    /\ gatt' = IF handlers > 0 THEN "null" ELSE gatt
    /\ handlers' = 0

\* The queued 'gattserverdisconnected' event is dispatched.
DeliverEvent ==
    /\ evPending
    /\ evPending' = FALSE
    /\ HandlersRun
    /\ connectionStatus' = StatusAfterEvent
    /\ falseSince' = CountFalse(handlers)
    /\ live' = FALSE
    /\ StreamsClose
    /\ UNCHANGED << deviceName, controlChar, controlResponses, connected,
                    eegChannels, charLive, discCalls, resps >>
    /\ UNCHANGED << tsVars, connVars, cmdVars, enableAux, now >>

\* ---------------------------------------------------------------- connect

\* connect(gatt?) up to its first await.
ConnectBegin(passed) ==
    /\ connPc = "idle"
    /\ NoCommand
    /\ connResult' = "none"
    /\ bindIdx' = 0
    /\ IF passed
       THEN /\ gatt' = "server"
            /\ deviceName' = DeviceName
            /\ connPc' = "service"
       ELSE /\ connPc' = "discover"
            /\ UNCHANGED << gatt, deviceName >>
    /\ UNCHANGED << controlChar, controlResponses, connectionStatus, handlers >>
    /\ UNCHANGED << corrVars, tsVars, cmdVars, envVars, obsVars, enableAux, now >>

\* requestDevice() and device.gatt.connect() resolve.
DiscoverOk ==
    /\ connPc = "discover"
    /\ ~evPending
    /\ connected' = TRUE
    /\ gatt' = "server"
    /\ deviceName' = DeviceName
    /\ connPc' = "service"
    /\ UNCHANGED << controlChar, controlResponses, connectionStatus, handlers,
                    bindIdx, connResult >>
    /\ UNCHANGED << evPending, eegChannels, charLive >>
    /\ UNCHANGED << corrVars, tsVars, cmdVars, obsVars, enableAux, now >>

\* getPrimaryService resolves; the disconnect listener is registered.
ConnectService ==
    /\ connPc = "service"
    /\ connected
    /\ gatt # "null"
    /\ handlers < MaxHandlers
    /\ handlers' = handlers + 1
    /\ connPc' = "bind"
    /\ UNCHANGED << gatt, deviceName, controlChar, controlResponses,
                    connectionStatus, bindIdx, connResult >>
    /\ UNCHANGED << corrVars, tsVars, cmdVars, envVars, obsVars, enableAux, now >>

\* One of the binding awaits resolves and another follows.
BindStep ==
    /\ connPc = "bind"
    /\ connected
    /\ bindIdx + 1 < NumBind
    /\ bindIdx' = bindIdx + 1
    /\ controlChar' = IF bindIdx = 0 THEN TRUE ELSE controlChar
    /\ charLive' = IF bindIdx = 0 THEN TRUE ELSE charLive
    /\ controlResponses' = IF bindIdx = 1 THEN TRUE ELSE controlResponses
    /\ UNCHANGED << gatt, deviceName, connectionStatus, handlers, connPc, connResult >>
    /\ UNCHANGED << connected, evPending, eegChannels >>
    /\ UNCHANGED << corrVars, tsVars, cmdVars, obsVars, enableAux, now >>

\* The last binding await resolves: eegReadings is merged and
\* connectionStatus.next(true) is called.
BindLast ==
    /\ connPc = "bind"
    /\ connected
    /\ bindIdx + 1 = NumBind
    /\ bindIdx' = 0
    /\ connPc' = "idle"
    /\ connResult' = "ok"
    /\ eegChannels' = channelCount
    /\ connectionStatus' = TRUE
    /\ falseSince' = 0
    /\ discCalls' = 0
    /\ live' = TRUE
    /\ UNCHANGED << gatt, deviceName, controlChar, controlResponses, handlers,
                    connected, evPending, charLive >>
    /\ UNCHANGED << corrVars, tsVars, cmdVars, enableAux, now >>

\* An await of connect() rejects: the exception leaves connect().
ConnectFail ==
    /\ connPc \in {"discover", "service", "bind"}
    /\ connPc' = "idle"
    /\ connResult' = "failed"
    /\ bindIdx' = 0
    /\ UNCHANGED << corrVars, tsVars, sessVars, cmdVars, envVars, obsVars, enableAux, now >>

\* ------------------------------------------------------------- disconnect

\* disconnect(). this.gatt.disconnect() fires 'gattserverdisconnected' when
\* the link was up; the listeners run inside the call (sync) or the event is
\* queued.
Disconnect(sync) ==
    /\ connPc = "idle"
    /\ NoCommand
    /\ discCalls' = Min(discCalls + 1, MaxDiscCalls)
    /\ live' = FALSE
    /\ IF gatt # "null"
       THEN /\ lastIndex' = Null
            /\ lastTimestamp' = Null
            /\ solo' = [c \in Electrodes |-> Unset]
            /\ connected' = FALSE
            /\ eegChannels' = 0
            /\ charLive' = FALSE
            /\ IF connected /\ sync
               THEN /\ HandlersRun
                    /\ StreamsClose
                    /\ falseSince' = CountFalse(handlers + 1)
                    /\ UNCHANGED evPending
               ELSE /\ evPending' = (evPending \/ connected)
                    /\ falseSince' = CountFalse(1)
                    /\ UNCHANGED << gatt, handlers, waits >>
            /\ connectionStatus' = FALSE
            /\ calls' = << >>
            /\ mono' = TRUE
       ELSE UNCHANGED << tsVars, gatt, handlers, connectionStatus,
                         envVars, falseSince, waits >>
    /\ UNCHANGED << deviceName, controlChar, controlResponses, resps >>
    /\ UNCHANGED << connVars, cmdVars, enableAux, now >>

\* ------------------------------------------------------------------ start

\* start() up to its first await: pause() writes 'h'.
StartCall ==
    /\ NoCommand
    /\ connPc = "idle"
    /\ IF controlChar /\ charLive
       THEN /\ startPc' = 1
            /\ writes' = << StartCommands[1] >>
            /\ inflight' = inflight + 1
            /\ startResult' = "none"
       ELSE /\ startResult' = "failed"
            /\ UNCHANGED << startPc, writes, inflight >>
    /\ UNCHANGED << sendPc, sendResult >>
    /\ UNCHANGED << corrVars, tsVars, sessVars, connVars, envVars, obsVars, enableAux, now >>

\* The write start() awaits resolves and the next command is written.
StartNext ==
    /\ startPc \in 1 .. (Len(StartCommands) - 1)
    /\ inflight > 0
    /\ charLive
    /\ startPc' = startPc + 1
    /\ writes' = Append(writes, StartCommands[startPc + 1])
    /\ inflight' = (inflight - 1) + 1
    /\ UNCHANGED << startResult, sendPc, sendResult >>
    /\ UNCHANGED << corrVars, tsVars, sessVars, connVars, envVars, obsVars, enableAux, now >>

\* The write of the last command resolves: start() returns.
StartDone ==
    /\ startPc = Len(StartCommands)
    /\ inflight > 0
    /\ charLive
    /\ startPc' = 0
    /\ inflight' = inflight - 1
    /\ startResult' = "ok"
    /\ UNCHANGED << writes, sendPc, sendResult >>
    /\ UNCHANGED << corrVars, tsVars, sessVars, connVars, envVars, obsVars, enableAux, now >>

\* start() failing at the rejected write with its next command written
\* all the same, as when the writes are not awaited one by one.
StartFailWritesOn ==
    /\ startPc \in 1 .. (Len(StartCommands) - 1)
    /\ inflight > 0
    /\ startPc' = 0
    /\ inflight' = inflight - 1
    /\ startResult' = "failed"
    /\ writes' = Append(writes, StartCommands[startPc + 1])
    /\ UNCHANGED << sendPc, sendResult >>
    /\ UNCHANGED << corrVars, tsVars, sessVars, connVars, envVars, obsVars, enableAux, now >>

\* The write start() awaits rejects: the exception leaves start().
StartFail ==
    /\ startPc > 0
    /\ inflight > 0
    /\ startPc' = 0
    /\ inflight' = inflight - 1
    /\ startResult' = "failed"
    /\ UNCHANGED << writes, sendPc, sendResult >>
    /\ UNCHANGED << corrVars, tsVars, sessVars, connVars, envVars, obsVars, enableAux, now >>

\* ------------------------------------------------------------ sendCommand

\* sendCommand(cmd) up to its await: controlChar.writeValue is called. It
\* throws when controlChar is undefined and is rejected with nothing
\* written when the characteristic is not of a link that is up.
SendCommand(cmd) ==
    /\ NoCommand
    /\ connPc = "idle"
    /\ IF controlChar /\ charLive
       THEN /\ sendPc' = cmd
            /\ inflight' = inflight + 1
            /\ sendResult' = "none"
       ELSE /\ sendResult' = "failed"
            /\ UNCHANGED << sendPc, inflight >>
    /\ UNCHANGED << startPc, writes, startResult >>
    /\ UNCHANGED << corrVars, tsVars, sessVars, connVars, envVars, obsVars, enableAux, now >>

\* The write sendCommand() awaits resolves.
SendOk ==
    /\ sendPc # "idle"
    /\ charLive
    /\ sendPc' = "idle"
    /\ inflight' = inflight - 1
    /\ sendResult' = "ok"
    /\ UNCHANGED << startPc, writes, startResult >>
    /\ UNCHANGED << corrVars, tsVars, sessVars, connVars, envVars, obsVars, enableAux, now >>

\* The write sendCommand() awaits rejects.
SendFail ==
    /\ sendPc # "idle"
    /\ sendPc' = "idle"
    /\ inflight' = inflight - 1
    /\ sendResult' = "failed"
    /\ UNCHANGED << startPc, writes, startResult >>
    /\ UNCHANGED << corrVars, tsVars, sessVars, connVars, envVars, obsVars, enableAux, now >>

\* ------------------------------------------------------------- deviceInfo

\* deviceInfo() up to its await: resultListener subscribes to
\* controlResponses, then sendCommand('v1') calls writeValue.
DeviceInfoCall(w) ==
    /\ waits[w].pc = "idle"
    /\ connPc = "idle"
    /\ IF ~controlResponses
       THEN /\ waits' = [waits EXCEPT ![w].pc = "done", ![w].res = "failed"]
            /\ UNCHANGED inflight
       ELSE IF controlChar /\ charLive
       THEN /\ waits' = [waits EXCEPT ![w].pc = "write",
                                      ![w].sub = Some(Len(resps)),
                                      ![w].heard = OnSubscribe(resps)]
            /\ inflight' = inflight + 1
       ELSE /\ waits' = [waits EXCEPT ![w].pc = "done",
                                      ![w].sub = Some(Len(resps)),
                                      ![w].heard = OnSubscribe(resps),
                                      ![w].res = "failed"]
            /\ UNCHANGED inflight
    /\ UNCHANGED << startPc, writes, startResult, sendPc, sendResult, resps >>
    /\ UNCHANGED << tsVars, sessVars, connVars, envVars, obsVars, enableAux, now >>

\* The write of 'v1' resolves: deviceInfo() returns resultListener, which
\* has settled already or is awaited.
InfoWriteOk(w) ==
    /\ waits[w].pc = "write"
    /\ charLive
    /\ inflight' = inflight - 1
    /\ waits' = [waits EXCEPT
                   ![w].pc = IF waits[w].heard # Null \/ waits[w].closed
                             THEN "done" ELSE "wait",
                   ![w].res = IF waits[w].heard # Null THEN "value"
                              ELSE IF waits[w].closed THEN "undefined"
                              ELSE "none"]
    /\ UNCHANGED << startPc, writes, startResult, sendPc, sendResult, resps >>
    /\ UNCHANGED << tsVars, sessVars, connVars, envVars, obsVars, enableAux, now >>

\* The write of 'v1' rejects: the exception leaves deviceInfo().
InfoWriteFail(w) ==
    /\ waits[w].pc = "write"
    /\ inflight' = inflight - 1
    /\ waits' = [waits EXCEPT ![w].pc = "done", ![w].res = "failed"]
    /\ UNCHANGED << startPc, writes, startResult, sendPc, sendResult, resps >>
    /\ UNCHANGED << tsVars, sessVars, connVars, envVars, obsVars, enableAux, now >>

\* The control characteristic notifies a decoded response, carrying a
\* firmware version (fw) or not: every listener still waiting filters it.
ControlResponse(fw) ==
    /\ charLive
    /\ controlResponses
    /\ Len(resps) < MaxResp
    /\ resps' = Append(resps, fw)
    /\ waits' = [w \in WaitIds |->
                   IF fw /\ Hears(w) /\ waits[w].heard = Null /\ ~waits[w].closed
                   THEN Resolved(w, Len(resps) + 1) ELSE waits[w]]
    /\ UNCHANGED << tsVars, sessVars, connVars, cmdVars, envVars, obsVars, enableAux, now >>

\* ---------------------------------------------------------- notifications

\* The record kept of one getTimestamp call.
CallRecord(ch, idx, r, sr) ==
    [electrode |-> ch, index |-> idx, timestamp |-> r.ret,
     preIndex |-> lastIndex, preTimestamp |-> lastTimestamp,
     soloTimestamp |-> sr.ret]

\* An electrode characteristic notifies a subscriber of eegReadings: the map
\* function of the stream runs getTimestamp on the group index.
Notify(ch, idx) ==
    /\ ch < eegChannels
    /\ LET r == getTimestamp(lastIndex, lastTimestamp, idx, DateGetTime)
           sr == getTimestamp(solo[ch].lastIndex, solo[ch].lastTimestamp, idx, DateGetTime)
           seeding == lastIndex = Null \/ lastTimestamp = Null
       IN  /\ r.lastIndex < (MaxWraps + 1) * IndexRange
           /\ sr.lastIndex < (MaxWraps + 1) * IndexRange
           /\ lastIndex' = Some(r.lastIndex)
           /\ lastTimestamp' = Some(r.lastTimestamp)
           /\ solo' = [solo EXCEPT ![ch] = [lastIndex |-> Some(sr.lastIndex),
                                            lastTimestamp |-> Some(sr.lastTimestamp)]]
           /\ calls' = IF seeding \/ calls = << >>
                       THEN << CallRecord(ch, idx, r, sr) >>
                       ELSE << calls[Len(calls)], CallRecord(ch, idx, r, sr) >>
           /\ mono' = IF seeding \/ calls = << >>
                      THEN TRUE
                      ELSE mono /\ idx > calls[Len(calls)].index
    /\ UNCHANGED << corrVars, sessVars, connVars, cmdVars, envVars, obsVars, enableAux, now >>

\* ------------------------------------------------------------------- Next

Next ==
    \/ Tick
    \/ \E b \in BOOLEAN : SetEnableAux(b)
    \/ GattConnect
    \/ TransportDrop
    \/ DeliverEvent
    \/ \E passed \in BOOLEAN : ConnectBegin(passed)
    \/ DiscoverOk
    \/ ConnectService
    \/ BindStep
    \/ BindLast
    \/ ConnectFail
    \/ \E sync \in BOOLEAN : Disconnect(sync)
    \/ StartCall
    \/ StartNext
    \/ StartDone
    \/ StartFail
    \/ \E cmd \in Commands : SendCommand(cmd)
    \/ SendOk
    \/ SendFail
    \/ \E ch \in SessionElectrodes, idx \in SessionIndices : Notify(ch, idx)

Spec == Init /\ [][Next]_vars

\* A session that connect(gatt) has just completed on a fresh client.
Connected ==
    /\ gatt = "server"
    /\ deviceName = DeviceName
    /\ controlChar = TRUE
    /\ enableAux = FALSE
    /\ connectionStatus = TRUE
    /\ lastIndex = Null
    /\ lastTimestamp = Null
    /\ connPc = "idle"
    /\ bindIdx = 0
    /\ startPc = 0
    /\ writes = << >>
    /\ inflight = 0
    /\ startResult = "none"
    /\ connected = TRUE
    /\ evPending = FALSE
    /\ handlers = 1
    /\ eegChannels = 4
    /\ now = 0
    /\ calls = << >>
    /\ mono = TRUE
    /\ solo = [c \in Electrodes |-> Unset]
    /\ falseSince = 0
    /\ discCalls = 0
    /\ connResult = "ok"
    /\ controlResponses = TRUE
    /\ charLive = TRUE
    /\ sendPc = "idle"
    /\ sendResult = "none"
    /\ waits = [w \in WaitIds |-> NoWait]
    /\ resps = << >>
    /\ live = TRUE

\* The readings of one session: the electrodes notify and the clock runs.
NextStream ==
    \/ Tick
    \/ \E ch \in StreamElectrodes, idx \in Indices : Notify(ch, idx)

SpecStream == Connected /\ [][NextStream]_vars

\* The merged stream of one session: two electrodes notify in any order.
NextMux ==
    \/ Tick
    \/ \E ch \in MuxElectrodes, idx \in MuxIndices : Notify(ch, idx)

SpecMux == Connected /\ [][NextMux]_vars

\* The command responses of one session: deviceInfo() calls, responses and
\* the end of the session in any order.
NextInfo ==
    \/ \E w \in WaitIds : DeviceInfoCall(w)
    \/ \E w \in WaitIds : InfoWriteOk(w)
    \/ \E w \in WaitIds : InfoWriteFail(w)
    \/ \E fw \in BOOLEAN : ControlResponse(fw)
    \/ TransportDrop
    \/ DeliverEvent
    \/ \E sync \in BOOLEAN : Disconnect(sync)

SpecInfo == Connected /\ [][NextInfo]_vars

TypeOK ==
    /\ gatt \in {"null", "server"}
    /\ connPc \in {"idle", "discover", "service", "bind"}
    /\ bindIdx \in 0 .. NumBind
    /\ startPc \in 0 .. Len(StartCommands)
    /\ inflight \in 0 .. MaxWaits
    /\ sendPc \in {"idle"} \cup Commands
    /\ Len(resps) <= MaxResp
    /\ handlers \in 0 .. MaxHandlers
    /\ Len(calls) <= 2

\* ------------------------------------------------------------- properties

\* The last getTimestamp call and the one before it.
LastCall == calls[Len(calls)]
PrevCall == calls[1]

\* The index a state's lastIndex shows of the 16-bit counter.
Low16(x) == Val(x) % IndexRange

\* C1: starting from a Connected session, two disconnect() calls in
\* succession, with the transport's 'gattserverdisconnected' event
\* dispatched, make connectionStatus emit false exactly once in total.
C1_TwoDisconnectsOneFalse ==
    (connResult = "ok" /\ discCalls = 2 /\ ~evPending) => falseSince = 1

\* C2: when a connect() that follows a disconnect() completes, lastIndex and
\* lastTimestamp are unset, whatever notifications were delivered before.
C2_FreshStateAfterReconnect ==
    [][(connResult # "ok" /\ connResult' = "ok" /\ discCalls >= 1)
         => (lastIndex' = Null /\ lastTimestamp' = Null)]_vars

\* C3: a Connected session torn down by the transport's disconnect event,
\* with no disconnect() call, has lastIndex and lastTimestamp unset.
C3_EventClearsState ==
    (connResult = "ok" /\ ~connectionStatus /\ discCalls = 0)
        => (lastIndex = Null /\ lastTimestamp = Null)

\* C4: every reading of an electrode gets the timestamp it would get if
\* the other electrodes had delivered nothing.
C4_ChannelsIndependent ==
    calls # << >> => LastCall.timestamp = LastCall.soloTimestamp

\* C5: while the indices since the seeding call are strictly increasing
\* (none wraps), each timestamp exceeds the one before, by READING_DELTA
\* times the difference of the two indices.
C5_IncreasingExact ==
    (Len(calls) = 2 /\ mono)
        => /\ LastCall.timestamp > PrevCall.timestamp
           /\ LastCall.timestamp - PrevCall.timestamp
                = READING_DELTA * (LastCall.index - PrevCall.index)

\* C5 witness: a third or later call of an increasing run, over a gap of
\* more than one index.
C5_Witness ==
    /\ Len(calls) = 2
    /\ mono
    /\ PrevCall.preIndex # Null
    /\ LastCall.index - PrevCall.index > 1

\* C6: a group index more than 0x1000 below the 16-bit value of lastIndex
\* is forward progress: timestamp and state advance by READING_DELTA times
\* the unwrapped delta, at the first wrap and at every later one.
C6_WrapForward ==
    (/\ calls # << >>
     /\ LastCall.preIndex # Null
     /\ Low16(LastCall.preIndex) - LastCall.index > WrapTolerance)
        => LET delta == LastCall.index + IndexRange - Low16(LastCall.preIndex)
           IN  /\ LastCall.timestamp
                    = Val(LastCall.preTimestamp) + READING_DELTA * delta
               /\ lastTimestamp = Some(LastCall.timestamp)
               /\ lastIndex = Some(Val(LastCall.preIndex) + delta)

\* C6 witness: index 0x0005 after 0xFFF0 at the second wrap of the
\* counter, stamped 21 groups later.
C6_Witness ==
    /\ calls # << >>
    /\ LastCall.preIndex = Some(IndexRange + 65520)
    /\ LastCall.index = 5
    /\ LastCall.timestamp = Val(LastCall.preTimestamp) + READING_DELTA * 21

\* C7: a group index that after unwrapping is below lastIndex by at most
\* 0x1000 gets a timestamp below lastTimestamp by READING_DELTA times the
\* gap, and leaves lastIndex and lastTimestamp as they were.
C7_LateUnchanged ==
    (/\ calls # << >>
     /\ LastCall.preIndex # Null
     /\ Unwrap(Val(LastCall.preIndex), LastCall.index) < Val(LastCall.preIndex)
     /\ Val(LastCall.preIndex) - Unwrap(Val(LastCall.preIndex), LastCall.index)
            <= WrapTolerance)
        => /\ LastCall.timestamp < Val(LastCall.preTimestamp)
           /\ LastCall.timestamp
                = Val(LastCall.preTimestamp)
                  - READING_DELTA * (Val(LastCall.preIndex)
                        - Unwrap(Val(LastCall.preIndex), LastCall.index))
           /\ lastIndex = LastCall.preIndex
           /\ lastTimestamp = LastCall.preTimestamp

\* C7 witness: a group exactly 0x1000 behind, after the counter wrapped.
C7_Witness ==
    /\ calls # << >>
    /\ LastCall.preIndex # Null
    /\ Val(LastCall.preIndex) >= IndexRange
    /\ Val(LastCall.preIndex)
         - Unwrap(Val(LastCall.preIndex), LastCall.index) = WrapTolerance
    /\ lastIndex = LastCall.preIndex

\* C8: two calls in succession with the same group index return the same
\* timestamp, and the second leaves the state the first left.
C8_DuplicateIdempotent ==
    (Len(calls) = 2 /\ LastCall.index = PrevCall.index)
        => /\ LastCall.timestamp = PrevCall.timestamp
           /\ lastIndex = LastCall.preIndex
           /\ lastTimestamp = LastCall.preTimestamp

\* C8 witness: the repeated index was a wrap of the counter when it first
\* arrived.
C8_Witness ==
    /\ Len(calls) = 2
    /\ LastCall.index = PrevCall.index
    /\ PrevCall.preIndex # Null
    /\ Low16(PrevCall.preIndex) - PrevCall.index > WrapTolerance

\* C9: start() writes 'h', 'p20', 's', 'd' in this order and no more, and
\* never has two writes outstanding: each is issued after the one before
\* has completed.
C9_StartInOrder ==
    /\ inflight <= 1
    /\ startPc > 0 => (writes = SubSeq(<< "h", "p20", "s", "d" >>, 1, startPc)
                       /\ inflight = 1)
    /\ (startPc = 0 /\ startResult = "ok")
          => (writes = << "h", "p20", "s", "d" >>
              /\ (sendPc = "idle" => inflight = 0))

\* C9 witness: a start() that has returned.
C9_Witness ==
    /\ startPc = 0
    /\ startResult = "ok"
    /\ Len(writes) = 4

\* C10: a connect() that failed leaves the session Disconnected as it was
\* before the call: no transport handle held, connectionStatus false.
C10_FailedConnectUnwinds ==
    connResult = "failed" => (gatt = "null" /\ connectionStatus = FALSE)

\* C17: within one session no getTimestamp call lowers the stored
\* lastIndex or lastTimestamp, whatever the order of the indices.
C17_ClockNeverBack ==
    [][(lastIndex # Null /\ lastTimestamp # Null)
         => (/\ Val(lastIndex') >= Val(lastIndex)
             /\ Val(lastTimestamp') >= Val(lastTimestamp))]_vars

\* C17 witness: a late group was stamped before lastTimestamp.
C17_Witness ==
    /\ calls # << >>
    /\ LastCall.preIndex # Null
    /\ LastCall.timestamp < Val(lastTimestamp)

\* The number of groups a 16-bit index is behind the last seen index,
\* modulo 0x10000.
Behind(call) == (Val(call.preIndex) - call.index) % IndexRange

\* C18: in every state, a group whose 16-bit index is behind the last seen
\* index by at most 0x1000 modulo 0x10000 is a late group: stamped before
\* lastTimestamp, the state left as it was.
C18_WindowTolerated ==
    (/\ calls # << >>
     /\ LastCall.preIndex # Null
     /\ Behind(LastCall) >= 1
     /\ Behind(LastCall) <= WrapTolerance)
        => /\ LastCall.timestamp
                = Val(LastCall.preTimestamp) - READING_DELTA * Behind(LastCall)
           /\ lastIndex = LastCall.preIndex
           /\ lastTimestamp = LastCall.preTimestamp

\* C11: sendCommand() called while the session is not Connected fails and
\* issues no write.
C11_SendWhileNotConnected ==
    [][((\E cmd \in Commands : SendCommand(cmd)) /\ ~connectionStatus)
         => (sendResult' = "failed" /\ sendPc' = "idle" /\ inflight' = inflight)]_vars

\* C14: disconnect() called while the session is Disconnected emits no
\* notification, requests no transport disconnect and changes no state.
C14_DisconnectNoOp ==
    [][((\E sync \in BOOLEAN : Disconnect(sync)) /\ ~connectionStatus)
         => UNCHANGED << gatt, connectionStatus, falseSince, connected, evPending,
                         handlers, lastIndex, lastTimestamp >>]_vars

\* C15: the dispatch of the transport's disconnect event on a Connected
\* session makes connectionStatus emit false exactly once, whatever
\* connect attempts came before.
C15_EventOneFalse ==
    [][(evPending /\ ~evPending' /\ connectionStatus)
         => falseSince' = falseSince + 1]_vars

\* C16: the value connectionStatus holds for a new subscriber is true
\* exactly when a connect() has completed and neither disconnect() nor a
\* disconnect event came since; it is true only with this.gatt set.
C16_StatusIsSessionState ==
    /\ connectionStatus = live
    /\ connectionStatus => gatt = "server"

\* C16 witness: a Connected session was torn down by the event alone.
C16_Witness ==
    /\ connResult = "ok"
    /\ discCalls = 0
    /\ ~evPending
    /\ ~live
    /\ ~connectionStatus

\* C20: when a write of start() is rejected start() fails at that step,
\* and no later command of the sequence is written then or afterwards.
C20_FailedStartStops ==
    [][/\ (startPc > 0 /\ startResult' = "failed")
            => (startPc' = 0 /\ writes' = writes)
       /\ (startPc = 0 /\ startPc' = 0) => writes' = writes]_vars

\* C20 witness: start() failed with commands of the sequence left unwritten.
C20_Witness ==
    /\ startPc = 0
    /\ startResult = "failed"
    /\ Len(writes) \in 1 .. 3

\* C12: every deviceInfo() wait that resolves does so with the first
\* response carrying a firmware version that arrives after its own
\* subscription, each wait on its own, and never with a response
\* delivered before it subscribed.
C12_FirstMatchSinceSubscription ==
    \A w \in WaitIds :
        /\ waits[w].heard # Null =>
              /\ waits[w].sub # Null
              /\ Val(waits[w].heard) > Val(waits[w].sub)
              /\ resps[Val(waits[w].heard)]
              /\ \A j \in (Val(waits[w].sub) + 1) .. (Val(waits[w].heard) - 1) :
                    ~resps[j]
        /\ waits[w].res \in {"value", "undefined"} => waits[w].heard # Null

\* C13: a deviceInfo() wait whose stream terminated before a response
\* with a firmware version arrived completes as a failure: it does not
\* resolve and does not stay pending.
C13_ClosedWaitFails ==
    \A w \in WaitIds :
        (waits[w].closed /\ waits[w].heard = Null) =>
            /\ waits[w].pc # "wait"
            /\ waits[w].pc = "done" => waits[w].res = "failed"

\* C19: a response with a firmware version delivered once deviceInfo()
\* has issued the write of 'v1', even before the write completes, is
\* let through to the call, which does not go on waiting.
C19_ListenerBeforeWrite ==
    \A w \in WaitIds :
        /\ (/\ waits[w].pc \in {"write", "wait"}
            /\ \E j \in (Val(waits[w].sub) + 1) .. Len(resps) : resps[j])
              => waits[w].heard # Null
        /\ waits[w].pc = "wait" => waits[w].heard = Null

\* C19 witness: the response arrived while the write was still pending.
C19_Witness ==
    \E w \in WaitIds : waits[w].pc = "write" /\ waits[w].heard # Null

====
